---- MODULE Spec2Model ----
(***************************************************************************)
(* cfn-docgen: the page parser (ResourcePage), the document sources        *)
(* (list_files, LocalSource, RemoteSource) and the driver (main).          *)
(*                                                                         *)
(* A string is a sequence of one-character strings, a document the         *)
(* sequence of its lines as the file holds them (the line terminator is    *)
(* left out: str.strip removes it before any line is looked at).           *)
(***************************************************************************)
EXTENDS Integers, Sequences, FiniteSets, TLC

VARIABLES
    f,          \* ResourcePage.f: the open file (its lines, the read position)
    ppc,        \* the parser method that is running: "idle", "getatt", "ref"
    targets,    \* list(page.getatt_targets()) as collected so far
    tracking,   \* ref(): the local tracking
    candidates, \* ref(): the local candidates
    ret,        \* what the last parser method returned or raised
    source,     \* main(): "local" (LocalSource) or "remote" (RemoteSource)
    fs,         \* the documents directory: file name -> document, or NoFile
    cloneOk,    \* whether git clone will exit with status 0
    tmp,        \* RemoteSource's temporary directory: "none", "exists", "removed"
    gen,        \* the generator source.files(): "created", "suspended", "finished", "closed"
    pending,    \* the paths list_files has still to yield
    yielded,    \* the paths the generator has yielded, in order
    mpc,        \* main()'s position
    file,       \* main(): the loop variable, the path being processed
    resources,  \* main(): the result mapping
    out,        \* the output sink: the JSON documents written to it
    record,     \* main(): the record under construction for the current page
    err,        \* the exception that ended main(), or "none"
    seen        \* the paths whose record was stored, in order

pageVars == << f, ppc, targets, tracking, candidates, ret >>
mainVars == << source, fs, cloneOk, tmp, gen, pending, yielded, mpc, file,
               resources, record, out, err, seen >>
vars == << f, ppc, targets, tracking, candidates, ret, source, fs, cloneOk,
           tmp, gen, pending, yielded, mpc, file, resources, record, out, err, seen >>

\* the backquote character, which a TLA+ string cannot hold
BT == "backquote"

(***************************************************************************)
(* The literals of the source.                                             *)
(***************************************************************************)
REF_HEADING ==
    << "#","#","#"," ","R","e","f" >>

GETATT_HEADING ==
    << "#","#","#"," ","F","n",":",":","G","e","t","A","t","t" >>

REF_PHRASE ==
    << "l","o","g","i","c","a","l"," ","I","D"," ","o","f"," ","t","h","i",
       "s"," ","r","e","s","o","u","r","c","e"," ","t","o"," ","t","h","e",
       " ","i","n","t","r","i","n","s","i","c"," ",BT,"R","e","f",BT," ",
       "f","u","n","c","t","i","o","n" >>

REF_RE_LITERAL ==
    << BT,"R","e","f",BT," ","r","e","t","u","r","n","s" >>

\* the character class of REF_RE with the period added to it
REF_RE_STOP_AtPeriod == {"\\", ",", "."}

\* what ends the group of REF_RE: [^\\,]
REF_RE_STOP == {"\\", ","}

GETATT_MARKER ==
    << "-","f","n",":",":","g","e","t","a","t","t" >>

GLOB_PREFIX ==
    << "a","w","s","-","r","e","s","o","u","r","c","e","-" >>

GLOB_SUFFIX ==
    << ".","m","d" >>

S3_BUCKET_FILE ==
    << "a","w","s","-","p","r","o","p","e","r","t","i","e","s","-","s","3",
       "-","b","u","c","k","e","t",".","m","d" >>

(***************************************************************************)
(* str and re, as far as the source uses them.  Indexes count from 1; a    *)
(* search that finds nothing gives 0.                                      *)
(***************************************************************************)
Whitespace == {" ", "\t", "\n", "\r"}

RECURSIVE SkipWhile(_, _, _)
\* the first index >= i of s whose character is outside cls (Len(s)+1: none)
SkipWhile(s, i, cls) ==
    IF i > Len(s) \/ s[i] \notin cls THEN i ELSE SkipWhile(s, i + 1, cls)

RECURSIVE SkipUntil(_, _, _)
\* the first index >= i of s whose character is in cls (Len(s)+1: none)
SkipUntil(s, i, cls) ==
    IF i > Len(s) \/ s[i] \in cls THEN i ELSE SkipUntil(s, i + 1, cls)

RECURSIVE LastNonWs(_, _)
LastNonWs(s, i) ==
    IF i < 1 \/ s[i] \notin Whitespace THEN i ELSE LastNonWs(s, i - 1)

\* str.strip()
strip(s) ==
    LET a == SkipWhile(s, 1, Whitespace)
        b == LastNonWs(s, Len(s))
    IN  IF a > b THEN << >> ELSE SubSeq(s, a, b)

MatchAt(s, sub, i) ==
    /\ i >= 1
    /\ i + Len(sub) - 1 <= Len(s)
    /\ \A k \in 1..Len(sub) : s[i + k - 1] = sub[k]

\* str.find(sub, i): the first index >= i at which sub occurs in s
find(s, sub, i) ==
    LET hits == { j \in i..(Len(s) - Len(sub) + 1) : MatchAt(s, sub, j) }
    IN  IF hits = {} THEN 0
        ELSE CHOOSE j \in hits : \A k \in hits : j <= k

\* sub in s
contains(s, sub) == find(s, sub, 1) # 0

\* str.startswith(prefix)
startswith(s, prefix) == MatchAt(s, prefix, 1)

\* str.endswith(suffix)
endswith(s, suffix) == MatchAt(s, suffix, Len(s) - Len(suffix) + 1)

\* str.split(sep): the number of segments, and segment n (counted from 0),
\* for a separator of one character
SplitCount(s, sep) == Cardinality({i \in 1..Len(s) : s[i] = sep}) + 1

RECURSIVE SplitStart(_, _, _, _)
\* the index at which segment n starts, segment 0 starting at i
SplitStart(s, sep, n, i) ==
    IF n = 0 THEN i
    ELSE SplitStart(s, sep, n - 1, SkipUntil(s, i, {sep}) + 1)

SplitSegment(s, sep, n) ==
    LET a == SplitStart(s, sep, n, 1)
    IN  SubSeq(s, a, SkipUntil(s, a, {sep}) - 1)

\* str.split()[0]: the first whitespace-delimited token (s holds one)
FirstToken(s) ==
    LET a == SkipWhile(s, 1, Whitespace)
    IN  SubSeq(s, a, SkipUntil(s, a, Whitespace) - 1)

\* str.replace(c, "") for a single character c
RemoveChar(s, c) == SelectSeq(s, LAMBDA x : x # c)

NoMatch == [kind |-> "nomatch"]
Group(s) == [kind |-> "match", group1 |-> s]

\* REF_RE matched at index i of s:  `Ref` returns  \s*  ([^\\,]+)
\* \s* is greedy and gives one character back when the group would be empty
ReMatchAt(s, i) ==
    LET e == i + Len(REF_RE_LITERAL)
        w == SkipWhile(s, e, Whitespace)
    IN  IF ~MatchAt(s, REF_RE_LITERAL, i) THEN NoMatch
        ELSE IF w <= Len(s) /\ s[w] \notin REF_RE_STOP
             THEN Group(SubSeq(s, w, SkipUntil(s, w, REF_RE_STOP) - 1))
        ELSE IF w > e THEN Group(<< s[w - 1] >>)
        ELSE NoMatch

RECURSIVE ReSearchFrom(_, _)
ReSearchFrom(s, i) ==
    LET p == find(s, REF_RE_LITERAL, i)
    IN  IF p = 0 THEN NoMatch
        ELSE IF ReMatchAt(s, p) # NoMatch THEN ReMatchAt(s, p)
        ELSE ReSearchFrom(s, p + 1)

\* REF_RE.search(line)
REF_RE_search(s) == ReSearchFrom(s, 1)

(***************************************************************************)
(* Values: what a method returns or raises.                                *)
(***************************************************************************)
None == [kind |-> "None"]
Str(s) == [kind |-> "str", val |-> s]
List(l) == [kind |-> "list", val |-> l]
Raise(exc) == [kind |-> "raise", exc |-> exc]
RaiseTooMany(name, cands) ==
    [kind |-> "raise", exc |-> "RuntimeError", name |-> name, candidates |-> cands]
Running == [kind |-> "running"]

\* ret: the method called last, whether it was the first call on the page,
\* and its outcome
Result(c, first, v) == [call |-> c, first |-> first, val |-> v]

(***************************************************************************)
(* The file object behind ResourcePage.f.  pos counts the lines read.      *)
(***************************************************************************)
NoHandle == [open |-> FALSE, data |-> << >>, pos |-> 0]
Open(doc) == [open |-> TRUE, data |-> doc, pos |-> 0]

\* the seek left out: the file stays where the last read left it
SeekStartOmitted(h) == h

\* self.f.seek(0)
SeekStart(h) == [h EXCEPT !.pos = 0]

AtEof(h) == h.pos >= Len(h.data)

\* self.f.readline(), and a step of `for line in self.f`: the line, "" at EOF
ReadLine(h) == IF AtEof(h) THEN << >> ELSE h.data[h.pos + 1]
Advance(h) == IF AtEof(h) THEN h ELSE [h EXCEPT !.pos = h.pos + 1]

(***************************************************************************)
(* ResourcePage: the parser methods.                                       *)
(***************************************************************************)
\* the header taken without the split on "<"
NameOfLineUncut(line) ==
    IF SplitCount(line, "#") < 2 THEN Raise("IndexError")
    ELSE Str(strip(SplitSegment(line, "#", 1)))

\* line.split("#")[1].strip().split("<")[0].strip()
NameOfLine(line) ==
    IF SplitCount(line, "#") < 2 THEN Raise("IndexError")
    ELSE Str(strip(SplitSegment(strip(SplitSegment(line, "#", 1)), "<", 0)))

\* resource_name(): seek(0), readline(), the name; h is the file afterwards
ResourceNameCall(h) ==
    LET h0 == SeekStart(h)
    IN  [h |-> Advance(h0), val |-> NameOfLine(ReadLine(h0))]

\* getatt_targets(): the loop body for one line of _lines()
TargetsAfter(tg, line) ==
    IF ~contains(line, GETATT_MARKER) THEN tg
    ELSE Append(tg, RemoveChar(strip(FirstToken(line)), BT))

\* the heading test without its elif branch
TrackingAfterRefOnly(tr, line) ==
    IF startswith(line, REF_HEADING) THEN TRUE ELSE tr

\* ref(): the heading test of the loop body
TrackingAfter(tr, line) ==
    IF startswith(line, REF_HEADING) THEN TRUE
    ELSE IF startswith(line, GETATT_HEADING) THEN FALSE
    ELSE tr

\* ref(): the rest of the loop body, tr being tracking after the heading test
CandidatesAfter(cands, tr, line) ==
    IF tr /\ contains(line, REF_PHRASE)
    THEN LET m == REF_RE_search(line)
         IN  IF m = NoMatch THEN cands ELSE Append(cands, m.group1)
    ELSE cands

\* ref(): what follows the loop
RefOutcome(h, cands) ==
    IF Len(cands) = 0 THEN [h |-> h, val |-> None]
    ELSE IF Len(cands) > 1
    THEN LET r == ResourceNameCall(h)
         IN  [h |-> r.h,
              val |-> IF r.val.kind = "raise" THEN r.val
                      ELSE RaiseTooMany(r.val.val, cands)]
    ELSE [h |-> h, val |-> Str(cands[1])]

\* page.resource_name()
ResourceName ==
    /\ ppc = "idle" /\ f.open
    /\ LET r == ResourceNameCall(f)
       IN  f' = r.h /\ ret' = Result("resource_name", ret.call = "none", r.val)
    /\ UNCHANGED << ppc, targets, tracking, candidates >>

\* list(page.getatt_targets()): the generator starts, _lines() seeks to 0
GetattBegin ==
    /\ ppc = "idle" /\ f.open
    /\ ppc' = "getatt"
    /\ f' = SeekStart(f)
    /\ targets' = << >>
    /\ ret' = Result("getatt_targets", ret.call = "none", Running)
    /\ UNCHANGED << tracking, candidates >>

\* one line of the file goes through _lines() and the loop of getatt_targets()
GetattLine ==
    /\ ppc = "getatt" /\ ~AtEof(f)
    /\ LET line == strip(ReadLine(f))
       IN  targets' = IF line = << >> THEN targets ELSE TargetsAfter(targets, line)
    /\ f' = Advance(f)
    /\ UNCHANGED << ppc, tracking, candidates, ret >>

\* the file is exhausted: the generator ends and list() returns
GetattEnd ==
    /\ ppc = "getatt" /\ AtEof(f)
    /\ ppc' = "idle"
    /\ ret' = [ret EXCEPT !.val = List(targets)]
    /\ targets' = << >>
    /\ UNCHANGED << f, tracking, candidates >>

\* page.ref() is entered: the locals, and _lines() seeks to 0
RefBegin ==
    /\ ppc = "idle" /\ f.open
    /\ ppc' = "ref"
    /\ f' = SeekStart(f)
    /\ candidates' = << >>
    /\ tracking' = FALSE
    /\ ret' = Result("ref", ret.call = "none", Running)
    /\ UNCHANGED targets

\* one line of the file goes through _lines() and the loop of ref()
RefLine ==
    /\ ppc = "ref" /\ ~AtEof(f)
    /\ LET line == strip(ReadLine(f))
           tr == TrackingAfter(tracking, line)
       IN  IF line = << >>
           THEN UNCHANGED << tracking, candidates >>
           ELSE /\ tracking' = tr
                /\ candidates' = CandidatesAfter(candidates, tr, line)
    /\ f' = Advance(f)
    /\ UNCHANGED << ppc, targets, ret >>

\* the file is exhausted: ref() returns or raises (tracking and candidates
\* stay as the call left them)
RefEnd ==
    /\ ppc = "ref" /\ AtEof(f)
    /\ ppc' = "idle"
    /\ LET r == RefOutcome(f, candidates)
       IN  f' = r.h /\ ret' = [ret EXCEPT !.val = r.val]
    /\ UNCHANGED << targets, tracking, candidates >>

(***************************************************************************)
(* The parser on its own: one open page over any document of PageDocs,     *)
(* its methods called in any order, each running to its end.               *)
(***************************************************************************)
MaxLines == 3

L_BLANK ==
    << " "," " >>

L_TITLE ==
    << "#"," ","F","o","o",":",":","B","a","r"," ","<","i",">","d","o","c",
       "s","<","/","i",">" >>

L_TITLE2 ==
    << "#"," ","F","o","o"," ","#"," ","B","a","r" >>

L_SENT ==
    << "U","s","e"," ","t","h","e"," ","l","o","g","i","c","a","l"," ","I",
       "D"," ","o","f"," ","t","h","i","s"," ","r","e","s","o","u","r","c",
       "e"," ","t","o"," ","t","h","e"," ","i","n","t","r","i","n","s","i",
       "c"," ",BT,"R","e","f",BT," ","f","u","n","c","t","i","o","n",",",
       " ",BT,"R","e","f",BT," ","r","e","t","u","r","n","s"," ","t","h",
       "e"," ","q","u","e","u","e"," ","U","R","L","." >>

L_SENT_ESC ==
    << "W","h","e","n"," ","y","o","u"," ","p","a","s","s"," ","t","h","e",
       " ","l","o","g","i","c","a","l"," ","I","D"," ","o","f"," ","t","h",
       "i","s"," ","r","e","s","o","u","r","c","e"," ","t","o"," ","t","h",
       "e"," ","i","n","t","r","i","n","s","i","c"," ",BT,"R","e","f",BT,
       " ","f","u","n","c","t","i","o","n",","," ",BT,"R","e","f",BT," ",
       "r","e","t","u","r","n","s"," ","t","h","e"," ","A","R","N","\\",".",
       " ","F","o","r"," ","e","x","a","m","p","l","e" >>

L_ATTR ==
    << BT,"A","t","t","r","1",BT," ","-","f","n",":",":","g","e","t","a",
       "t","t" >>

L_REF == REF_HEADING

L_GETATT == GETATT_HEADING

\* a heading line that goes on with the sentence
L_REF_SENT == REF_HEADING \o << " " >> \o L_SENT_ESC

LinePool ==
    { L_BLANK, L_TITLE, L_SENT, L_ATTR, L_REF, L_GETATT, L_REF_SENT, REF_PHRASE }

PageDocs == UNION { [1..n -> LinePool] : n \in 0..MaxLines }

\* a directory entry: a file with its document, or no such file
NoFile == [exists |-> FALSE, doc |-> << >>]
File(d) == [exists |-> TRUE, doc |-> d]

\* a directory: its entries by name, or no directory at all
Dir(e) == [isdir |-> TRUE, entries |-> e]

MainIdle ==
    /\ source = "none" /\ fs = Dir(<< >>) /\ cloneOk = FALSE /\ tmp = "none"
    /\ gen = "none" /\ pending = << >> /\ yielded = << >> /\ mpc = "none"
    /\ file = << >> /\ resources = << >> /\ record = << >> /\ out = << >>
    /\ err = "none" /\ seen = << >>

PageInit ==
    /\ f \in { Open(d) : d \in PageDocs }
    /\ ppc = "idle"
    /\ targets = << >> /\ tracking = FALSE /\ candidates = << >>
    /\ ret = Result("none", TRUE, Running)
    /\ MainIdle

PResourceName == ResourceName /\ UNCHANGED mainVars
PGetattBegin == GetattBegin /\ UNCHANGED mainVars
PGetattLine == GetattLine /\ UNCHANGED mainVars
PGetattEnd == GetattEnd /\ UNCHANGED mainVars
PRefBegin == RefBegin /\ UNCHANGED mainVars
PRefLine == RefLine /\ UNCHANGED mainVars
PRefEnd == RefEnd /\ UNCHANGED mainVars

PageNext ==
    \/ PResourceName
    \/ PGetattBegin \/ PGetattLine \/ PGetattEnd
    \/ PRefBegin \/ PRefLine \/ PRefEnd

PageSpec == PageInit /\ [][PageNext]_vars

(***************************************************************************)
(* The document sources and main().                                        *)
(***************************************************************************)
FILE_FOO ==
    << "a","w","s","-","r","e","s","o","u","r","c","e","-","f","o","o",".",
       "m","d" >>

FILE_BAR ==
    << "a","w","s","-","r","e","s","o","u","r","c","e","-","b","a","r",".",
       "m","d" >>

\* a name the pattern does not match
FILE_TXT ==
    << "a","w","s","-","r","e","s","o","u","r","c","e","-","b","a","z",".",
       "t","x","t" >>

FileNames == { FILE_FOO, FILE_BAR, FILE_TXT, S3_BUCKET_FILE }

\* documents on disk: a page, a second page of the same resource name, a page
\* of another name, a page with two Ref sentences, a page without a header
D_FOO == << L_TITLE, L_ATTR, L_REF, L_SENT_ESC >>
D_FOO_AGAIN == << L_TITLE, L_GETATT, L_SENT >>
D_OTHER == << L_TITLE2, L_REF, L_SENT >>
D_AMBIGUOUS == << L_TITLE, L_REF, L_SENT, L_SENT_ESC >>
D_NO_HEADER == << L_ATTR >>

MainDocs == { D_FOO, D_FOO_AGAIN, D_OTHER, D_AMBIGUOUS, D_NO_HEADER }

Entries == { File(d) : d \in MainDocs } \cup {NoFile}

\* root is not a directory
NotADir == [isdir |-> FALSE, entries |-> [n \in FileNames |-> NoFile]]

FileSystems ==
    { Dir(e) : e \in { d \in [FileNames -> Entries] :
                          d[FILE_TXT] \in {NoFile, File(D_FOO)} } }

\* the pattern aws-resource-*.md of root.glob
GlobMatches(name) ==
    /\ Len(name) >= Len(GLOB_PREFIX) + Len(GLOB_SUFFIX)
    /\ startswith(name, GLOB_PREFIX)
    /\ endswith(name, GLOB_SUFFIX)

\* root.glob("aws-resource-*.md"): the matching entries of the directory
Glob(dir) == { n \in DOMAIN dir.entries : dir.entries[n].exists /\ GlobMatches(n) }

\* the orders in which a directory scan may enumerate the set S
Orders(S) ==
    { o \in [1..Cardinality(S) -> S] : \A i, j \in DOMAIN o : i # j => o[i] # o[j] }

\* list_files without its special case for s3
ListFilesGlobOnly(o) == o

\* list_files(root): what it yields, the glob having enumerated in order o
ListFiles(o) == o \o << S3_BUCKET_FILE >>

\* a dict as Python keeps it: the (key, value) pairs in insertion order
DictKeys(d) == [i \in DOMAIN d |-> d[i][1]]
DictHas(d, k) == \E i \in DOMAIN d : d[i][1] = k
DictGet(d, k) == d[CHOOSE i \in DOMAIN d : d[i][1] = k][2]

\* d.setdefault(k, v): the first value under a key stays
DictSetDefault(d, k, v) ==
    IF DictHas(d, k) THEN d ELSE Append(d, << k, v >>)

\* d[k] = v
DictSet(d, k, v) ==
    IF DictHas(d, k)
    THEN [i \in DOMAIN d |-> IF d[i][1] = k THEN << k, v >> ELSE d[i]]
    ELSE Append(d, << k, v >>)

\* _temppath(): the finally clause, shutil.rmtree(tdir)
TemppathExit(src, t) == IF src = "remote" THEN "removed" ELSE t

\* the with block of RemoteSource.files left before the paths are yielded
TempRemovedAtYield(src, t) == TemppathExit(src, t)

\* the generator is suspended at a yield of files(): inside the with block
\* of RemoteSource.files, so the directory is as it was
TempAtYield(src, t) == t

\* an abandoned generator that nothing closes
GeneratorLeftSuspended(src, g, t) == [gen |-> g, tmp |-> t]

\* the reference count of an abandoned generator drops to zero as main()'s
\* frame unwinds: close() raises GeneratorExit at the yield, the with block
\* of RemoteSource.files exits
GeneratorClose(src, g, t) ==
    IF g = "suspended"
    THEN [gen |-> "closed", tmp |-> TemppathExit(src, t)]
    ELSE [gen |-> g, tmp |-> t]

\* open(self.path)
OpenFile(src, t, dir, name) ==
    IF (src = "remote" /\ t # "exists") \/ ~dir.isdir \/ ~dir.entries[name].exists
    THEN Raise("FileNotFoundError")
    ELSE [kind |-> "file", h |-> Open(dir.entries[name].doc)]

\* a loop body that catches the exception and goes on with the next document
AfterCallSkipsDocument(r, next) == IF r.kind = "raise" THEN "exit" ELSE next

\* where main() goes on after a call of the loop body: an exception is not
\* caught and unwinds main()
AfterCall(r, next) == IF r.kind = "raise" THEN "unwinding" ELSE next

ErrorOf(r) == IF r.kind = "raise" THEN r.exc ELSE "none"

MainInit ==
    /\ source \in {"local", "remote"}
    /\ fs \in FileSystems \cup {NotADir}
    /\ cloneOk \in (IF source = "remote" THEN BOOLEAN ELSE {TRUE})
    /\ tmp = "none"
    /\ gen = "created"
    /\ pending = << >> /\ yielded = << >>
    /\ mpc = "for"
    /\ file = << >>
    /\ resources = << >> /\ record = << >>
    /\ out = << >>
    /\ err = "none"
    /\ seen = << >>
    /\ f = NoHandle /\ ppc = "idle"
    /\ targets = << >> /\ tracking = FALSE /\ candidates = << >>
    /\ ret = Result("none", TRUE, Running)

\* RemoteSource._temppath: tempfile.mkdtemp()
MkTemp ==
    /\ mpc = "for" /\ source = "remote" /\ gen = "created"
    /\ tmp' = "exists"
    /\ gen' = "cloning"
    /\ UNCHANGED << source, fs, cloneOk, pending, yielded, mpc, file, resources,
                    record, out, err, seen >>
    /\ UNCHANGED pageVars

\* RemoteSource._clone_repo: git clone exits with a non-zero status
CloneFails ==
    /\ mpc = "for" /\ gen = "cloning" /\ ~cloneOk
    /\ tmp' = TemppathExit(source, tmp)
    /\ gen' = "finished"
    /\ err' = "RuntimeError"
    /\ mpc' = "unwinding"
    /\ UNCHANGED << source, fs, cloneOk, pending, yielded, file, resources,
                    record, out, seen >>
    /\ UNCHANGED pageVars

\* RemoteSource._clone_repo: git clone exits with status 0
CloneDone ==
    /\ mpc = "for" /\ gen = "cloning" /\ cloneOk
    /\ gen' = "listing"
    /\ UNCHANGED << source, fs, cloneOk, tmp, pending, yielded, mpc, file,
                    resources, record, out, err, seen >>
    /\ UNCHANGED pageVars

ListingStarts ==
    \/ source = "local" /\ gen = "created"
    \/ source = "remote" /\ gen = "listing"

\* list_files: the assertion holds, the glob enumerates the directory
ListDir ==
    /\ mpc = "for" /\ ListingStarts /\ fs.isdir
    /\ \E o \in Orders(Glob(fs)) : pending' = ListFiles(o)
    /\ gen' = "listed"
    /\ UNCHANGED << source, fs, cloneOk, tmp, yielded, mpc, file, resources,
                    record, out, err, seen >>
    /\ UNCHANGED pageVars

\* list_files: assert root.is_dir() fails
ListNotADir ==
    /\ mpc = "for" /\ ListingStarts /\ ~fs.isdir
    /\ tmp' = TemppathExit(source, tmp)
    /\ gen' = "finished"
    /\ err' = "AssertionError"
    /\ mpc' = "unwinding"
    /\ UNCHANGED << source, fs, cloneOk, pending, yielded, file, resources,
                    record, out, seen >>
    /\ UNCHANGED pageVars

\* for file in source.files(): the generator yields the next path
NextFile ==
    /\ mpc = "for" /\ gen \in {"listed", "suspended"} /\ pending # << >>
    /\ file' = Head(pending)
    /\ pending' = Tail(pending)
    /\ yielded' = Append(yielded, Head(pending))
    /\ gen' = "suspended"
    /\ tmp' = TempAtYield(source, tmp)
    /\ mpc' = "open"
    /\ UNCHANGED << source, fs, cloneOk, resources, record, out, err, seen >>
    /\ UNCHANGED pageVars

\* for file in source.files(): the generator returns, the loop ends
Exhausted ==
    /\ mpc = "for" /\ gen \in {"listed", "suspended"} /\ pending = << >>
    /\ gen' = "finished"
    /\ tmp' = TemppathExit(source, tmp)
    /\ mpc' = "dump"
    /\ UNCHANGED << source, fs, cloneOk, pending, yielded, file, resources,
                    record, out, err, seen >>
    /\ UNCHANGED pageVars

\* with ResourcePage(file) as page: __enter__ opens the file
MOpen ==
    /\ mpc = "open"
    /\ LET r == OpenFile(source, tmp, fs, file)
       IN  /\ f' = IF r.kind = "raise" THEN f ELSE r.h
           /\ mpc' = AfterCall(r, "targets")
           /\ err' = ErrorOf(r)
    /\ UNCHANGED << source, fs, cloneOk, tmp, gen, pending, yielded, file,
                    resources, record, out, seen >>
    /\ UNCHANGED << ppc, targets, tracking, candidates, ret >>

MainSame ==
    UNCHANGED << source, fs, cloneOk, tmp, gen, pending, yielded, mpc, file,
                 resources, record, out, err, seen >>

\* "targets": list(page.getatt_targets())
MTargetsBegin == mpc = "targets" /\ GetattBegin /\ MainSame
MTargetsLine == mpc = "targets" /\ GetattLine /\ MainSame
MTargetsEnd ==
    /\ mpc = "targets" /\ GetattEnd
    /\ record' = << << "targets", ret'.val.val >> >>
    /\ mpc' = "ref"
    /\ UNCHANGED << source, fs, cloneOk, tmp, gen, pending, yielded, file,
                    resources, out, err, seen >>

\* "ref": page.ref()
MRefBegin == mpc = "ref" /\ RefBegin /\ MainSame
MRefLine == mpc = "ref" /\ RefLine /\ MainSame
MRefEnd ==
    /\ mpc = "ref" /\ RefEnd
    /\ record' = IF ret'.val.kind = "raise" THEN record
                 ELSE Append(record, << "ref", ret'.val >>)
    /\ mpc' = AfterCall(ret'.val, "name")
    /\ err' = ErrorOf(ret'.val)
    /\ UNCHANGED << source, fs, cloneOk, tmp, gen, pending, yielded, file,
                    resources, out, seen >>

\* resources[page.resource_name()] = the record
MStore ==
    /\ mpc = "name" /\ ResourceName
    /\ resources' = IF ret'.val.kind = "raise" THEN resources
                    ELSE DictSet(resources, ret'.val.val, record)
    /\ seen' = IF ret'.val.kind = "raise" THEN seen
               ELSE Append(seen, [path |-> file, name |-> ret'.val.val,
                                  record |-> record])
    /\ mpc' = AfterCall(ret'.val, "exit")
    /\ err' = ErrorOf(ret'.val)
    /\ UNCHANGED << source, fs, cloneOk, tmp, gen, pending, yielded, file,
                    record, out >>

\* ResourcePage.__exit__ at the end of the with block
MExit ==
    /\ mpc = "exit"
    /\ f' = [f EXCEPT !.open = FALSE]
    /\ mpc' = "for"
    /\ UNCHANGED << source, fs, cloneOk, tmp, gen, pending, yielded, file,
                    resources, record, out, err, seen >>
    /\ UNCHANGED << ppc, targets, tracking, candidates, ret >>

\* an exception leaves main(): __exit__ closes the page, the frame's
\* reference to the generator is dropped, the interpreter ends the run
Unwind ==
    /\ mpc = "unwinding"
    /\ f' = [f EXCEPT !.open = FALSE]
    /\ LET g == GeneratorClose(source, gen, tmp)
       IN  gen' = g.gen /\ tmp' = g.tmp
    /\ mpc' = "exited"
    /\ UNCHANGED << source, fs, cloneOk, pending, yielded, file, resources,
                    record, out, err, seen >>
    /\ UNCHANGED << ppc, targets, tracking, candidates, ret >>

\* json.dump(resources, args.output, indent=2)
Dump ==
    /\ mpc = "dump"
    /\ out' = Append(out, resources)
    /\ mpc' = "exited"
    /\ UNCHANGED << source, fs, cloneOk, tmp, gen, pending, yielded, file,
                    resources, record, err, seen >>
    /\ UNCHANGED pageVars

Next ==
    \/ MkTemp \/ CloneFails \/ CloneDone
    \/ ListDir \/ ListNotADir
    \/ NextFile \/ Exhausted
    \/ MOpen
    \/ MTargetsBegin \/ MTargetsLine \/ MTargetsEnd
    \/ MRefBegin \/ MRefLine \/ MRefEnd
    \/ MStore \/ MExit
    \/ Unwind \/ Dump

Init == MainInit

Spec == Init /\ [][Next]_vars

(***************************************************************************)
(* Properties of the parser, checked under PageSpec.                       *)
(***************************************************************************)
\* the document behind the page
Doc == f.data

\* method c was the last one called, and it has returned or raised
Returned(c) == ppc = "idle" /\ ret.call = c

Min(S) == CHOOSE x \in S : \A y \in S : x <= y
Max(S) == CHOOSE x \in S : \A y \in S : x >= y

\* s without its leading and trailing whitespace
TrimOf(s) ==
    LET ws == {" ", "\t", "\n", "\r"}
        n == Len(s)
    IN  IF \A i \in 1..n : s[i] \in ws THEN << >>
        ELSE SubSeq(s, CHOOSE a \in 1..n : s[a] \notin ws /\ \A i \in 1..(a - 1) : s[i] \in ws,
                       CHOOSE b \in 1..n : s[b] \notin ws /\ \A i \in (b + 1)..n : s[i] \in ws)

IsRefHeading(l) == startswith(TrimOf(l), REF_HEADING)
IsGetattHeading(l) == startswith(TrimOf(l), GETATT_HEADING)
HasPhrase(l) == contains(l, REF_PHRASE)

\* among the first n lines of d, the last heading is a ### Ref heading
LastHeadingIsRef(d, n) ==
    \E r \in 1..n : /\ IsRefHeading(d[r])
                    /\ \A j \in (r + 1)..n : ~IsGetattHeading(d[j])

\* line i lies after a ### Fn::GetAtt heading with no later ### Ref heading
\* before it, or before any ### Ref heading at all
UntrackedBefore(d, i) ==
    \/ \E g \in 1..(i - 1) : /\ IsGetattHeading(d[g])
                             /\ \A j \in (g + 1)..(i - 1) : ~IsRefHeading(d[j])
    \/ \A j \in 1..i : ~IsRefHeading(d[j])

\* the same, line i itself counted among the ### Ref headings that track it
UntrackedUpTo(d, i) ==
    \/ \E g \in 1..(i - 1) : /\ IsGetattHeading(d[g])
                             /\ \A j \in (g + 1)..i : ~IsRefHeading(d[j])
    \/ \A j \in 1..i : ~IsRefHeading(d[j])

\* C1 as stated: when every line with the Ref phrase lies after a
\* ### Fn::GetAtt heading with no later ### Ref heading before it, or before
\* any ### Ref heading, ref() returns no value.
C1_Original ==
    (Returned("ref") /\ \A i \in 1..Len(Doc) : HasPhrase(Doc[i]) => UntrackedBefore(Doc, i))
        => ret.val = None

\* C1, amended: during the scan of ref(), tracking is true exactly when the
\* last heading read so far is a ### Ref heading (false before any heading),
\* candidates come only from lines read while tracking is true, and ref()
\* returns no value when every line with the Ref phrase is untracked, a line
\* that itself starts with ### Ref counting as tracked.
C1_TrackingScopesCandidates ==
    /\ ppc = "ref" =>
          /\ tracking = LastHeadingIsRef(Doc, f.pos)
          /\ Len(candidates) <=
                Cardinality({ i \in 1..f.pos :
                                HasPhrase(Doc[i]) /\ LastHeadingIsRef(Doc, i) })
    /\ (Returned("ref") /\ \A i \in 1..Len(Doc) : HasPhrase(Doc[i]) => UntrackedUpTo(Doc, i))
          => ret.val = None

\* ref() returned no value although a sentence REF_RE matches follows a
\* ### Ref heading: a ### Fn::GetAtt heading lies between them
C1_Witness ==
    /\ Returned("ref") /\ ret.val = None
    /\ \E r, g, i \in 1..Len(Doc) :
          /\ r < g /\ g < i
          /\ IsRefHeading(Doc[r]) /\ IsGetattHeading(Doc[g])
          /\ HasPhrase(Doc[i]) /\ REF_RE_search(strip(Doc[i])) # NoMatch

\* C2: the outcome of ref() is decided by the number of candidates: none gives
\* no value, one gives that candidate, more than one gives a RuntimeError that
\* names the resource and lists the candidates in the order found.
C2_OutcomeByCandidateCount ==
    Returned("ref") =>
        IF Len(candidates) = 0 THEN ret.val = None
        ELSE IF Len(candidates) = 1 THEN ret.val = Str(candidates[1])
        ELSE /\ ret.val.kind = "raise"
             /\ ret.val.exc = "RuntimeError"
             /\ "name" \in DOMAIN ret.val
             /\ ret.val.candidates = candidates

QUEUE_URL ==
    << "t","h","e"," ","q","u","e","u","e"," ","U","R","L" >>

\* d has a ### Ref heading followed by the sentence of the specification, and
\* no other line with the Ref phrase
SentenceInRefSection(d) ==
    \E i \in 1..(Len(d) - 1) :
        /\ d[i] = L_REF /\ d[i + 1] = L_SENT
        /\ \A j \in 1..Len(d) : j # i + 1 => ~HasPhrase(d[j])

\* the text of l after the first `Ref` returns and the whitespace that
\* follows it, up to the first backslash or comma or the end of l
DescriptionOf(l) ==
    LET n == Len(l)
        p == Min({ i \in 1..n : MatchAt(l, REF_RE_LITERAL, i) })
        e == p + Len(REF_RE_LITERAL)
        w == Min({ i \in e..(n + 1) : i = n + 1 \/ l[i] \notin {" ", "\t", "\n", "\r"} })
        q == Min({ i \in w..(n + 1) : i = n + 1 \/ l[i] \in {"\\", ","} })
    IN  SubSeq(l, w, q - 1)

\* C3 as stated: for the sentence of the specification in a ### Ref section,
\* ref() returns exactly  the queue URL.
C3_Original ==
    (Returned("ref") /\ SentenceInRefSection(Doc)) => ret.val = Str(QUEUE_URL)

\* the lines of d that can give a candidate: read while tracking is true,
\* with the Ref phrase and with `Ref` returns
SentenceLines(d) ==
    { i \in 1..Len(d) : /\ HasPhrase(d[i]) /\ LastHeadingIsRef(d, i)
                        /\ contains(d[i], REF_RE_LITERAL) }

\* C3, amended: for that sentence ref() returns  the queue URL.  with the
\* final period; for a document with one sentence line, whose description
\* starts with a character other than backslash and comma, ref() returns the
\* text after `Ref` returns and its whitespace up to the first backslash or
\* comma, or up to the end of the line when neither follows.
C3_DescriptionRunsToStopOrEnd ==
    /\ (Returned("ref") /\ SentenceInRefSection(Doc))
          => ret.val = Str(QUEUE_URL \o << "." >>)
    /\ Returned("ref") =>
          \A i \in SentenceLines(Doc) :
              (SentenceLines(Doc) = {i} /\ DescriptionOf(TrimOf(Doc[i])) # << >>)
                  => ret.val = Str(DescriptionOf(TrimOf(Doc[i])))

\* ref() has returned a description for the sentence of the specification,
\* the one sentence line of the document
C3_Witness ==
    /\ Returned("ref") /\ SentenceInRefSection(Doc) /\ ret.val.kind = "str"
    /\ Cardinality(SentenceLines(Doc)) = 1

\* the attribute names of d: of each line with the marker, in document order,
\* the first token without its backquotes
ExpectedTargets(d) ==
    LET ls == SelectSeq(d, LAMBDA l : contains(l, GETATT_MARKER))
        tokenOf(l) ==
            LET a == Min({ i \in 1..Len(l) : l[i] \notin {" ", "\t", "\n", "\r"} })
                b == Min({ i \in a..(Len(l) + 1) :
                             i = Len(l) + 1 \/ l[i] \in {" ", "\t", "\n", "\r"} })
            IN  SelectSeq(SubSeq(l, a, b - 1), LAMBDA c : c # BT)
    IN  [k \in 1..Len(ls) |-> tokenOf(ls[k])]

\* C8: getatt_targets() re-scans from the start: whatever was called on the
\* page before, list(page.getatt_targets()) is one attribute name per line
\* with -fn::getatt, in document order, duplicates kept, and empty when no
\* line has the marker.
C8_GetattRestartable ==
    Returned("getatt_targets") => ret.val = List(ExpectedTargets(Doc))

\* getatt_targets(), called on a page that another method had read before
\* and left the file past its start, has yielded the same name twice
C8_Witness ==
    /\ Returned("getatt_targets") /\ ~ret.first
    /\ Len(ret.val.val) >= 2
    /\ ret.val.val[1] = ret.val.val[2]

FOO_BAR ==
    << "F","o","o",":",":","B","a","r" >>

FirstLine(d) == IF Len(d) = 0 THEN << >> ELSE d[1]
HashesOf(l) == { i \in 1..Len(l) : l[i] = "#" }

\* the text of l after its first #
AfterFirstHash(l) == SubSeq(l, Min(HashesOf(l)) + 1, Len(l))

\* the text of l between its first # and its second # (the end, if none)
BetweenHashes(l) ==
    LET p == Min(HashesOf(l))
        later == { i \in HashesOf(l) : i > p }
    IN  SubSeq(l, p + 1, IF later = {} THEN Len(l) ELSE Min(later) - 1)

\* s cut at its first <
CutAtAngle(s) ==
    LET I == { i \in 1..Len(s) : s[i] = "<" }
    IN  IF I = {} THEN s ELSE SubSeq(s, 1, Min(I) - 1)

\* C9 as stated: resource_name() returns the text of the first line after its
\* first #, cut at the first < and trimmed; it fails when there is no #.
C9_Original ==
    Returned("resource_name") =>
        IF HashesOf(FirstLine(Doc)) = {} THEN ret.val = Raise("IndexError")
        ELSE ret.val = Str(TrimOf(CutAtAngle(AfterFirstHash(FirstLine(Doc)))))

\* C9, amended: resource_name() returns the text of the first line between
\* its first # and its second # (the end of the line when there is no second),
\* cut at the first < and trimmed, so  # Foo::Bar <i>docs</i>  gives Foo::Bar;
\* when the first line has no # it fails with an IndexError.
C9_NameBetweenHashes ==
    Returned("resource_name") =>
        /\ IF HashesOf(FirstLine(Doc)) = {} THEN ret.val = Raise("IndexError")
           ELSE ret.val = Str(TrimOf(CutAtAngle(BetweenHashes(FirstLine(Doc)))))
        /\ FirstLine(Doc) = L_TITLE => ret.val = Str(FOO_BAR)

\* resource_name() has returned Foo::Bar for the header of the specification
C9_Witness ==
    Returned("resource_name") /\ FirstLine(Doc) = L_TITLE /\ ret.val = Str(FOO_BAR)

(***************************************************************************)
(* Properties of the sources and of main(), checked under Spec.            *)
(***************************************************************************)
\* C4: once RemoteSource.files() has created its temporary directory, the
\* directory is removed on every exit path: whenever the generator has
\* finished (clone failure, failed assertion, exhaustion) or has been closed
\* (abandoned by an exception in the loop of main()), and so before main()
\* writes the JSON and before the run ends.
C4_TempDirRemovedOnEveryExit ==
    (source = "remote" /\ tmp # "none") =>
        /\ gen \in {"finished", "closed"} => tmp = "removed"
        /\ mpc \in {"dump", "exited"} =>
              (gen \in {"finished", "closed"} /\ tmp = "removed")

\* a document failed in the loop of main() while the generator was suspended:
\* the run has ended with the generator closed and the directory removed
C4_Witness ==
    /\ source = "remote" /\ mpc = "exited"
    /\ err \in {"FileNotFoundError", "IndexError", "RuntimeError"}
    /\ yielded # << >> /\ gen = "closed" /\ tmp = "removed"

\* C10: in a run over the Remote source the temporary directory exists
\* whenever main() is opening or parsing a document, the last one yielded
\* included, and as long as the page's file is open.
C10_TempDirExistsWhileParsing ==
    (source = "remote" /\ (mpc \in {"open", "targets", "ref", "name", "exit"} \/ f.open))
        => tmp = "exists"

\* main() is about to take the name of the last document of the sequence
C10_Witness ==
    /\ source = "remote" /\ mpc = "name" /\ f.open
    /\ file = S3_BUCKET_FILE /\ pending = << >>
    /\ Len(yielded) = 3 /\ tmp = "exists"

\* list_files has enumerated the directory
Listed == gen \in {"listed", "suspended", "closed"} \/ (gen = "finished" /\ err = "none")

\* the files of the directory that match aws-resource-*.md
ExpectedMatches == { n \in {FILE_FOO, FILE_BAR} : fs.entries[n].exists }

\* C6: the Local source yields every file matching aws-resource-*.md, each
\* once, then aws-properties-s3-bucket.md, once and last, whether or not it
\* exists; opening it when it is absent fails with FileNotFoundError.
C6_LocalFileSequence ==
    source = "local" =>
        /\ Listed =>
              LET all == yielded \o pending
                  n == Len(all) - 1
              IN  /\ n = Cardinality(ExpectedMatches)
                  /\ { all[i] : i \in 1..n } = ExpectedMatches
                  /\ all[n + 1] = S3_BUCKET_FILE
        /\ (gen = "finished" /\ err = "none") => pending = << >>
        /\ (file = S3_BUCKET_FILE /\ ~fs.entries[S3_BUCKET_FILE].exists /\ mpc # "open")
              => (err = "FileNotFoundError" /\ mpc \in {"unwinding", "exited"})

\* both matching files were yielded, then the absent s3 file, whose opening
\* failed
C6_Witness ==
    /\ source = "local" /\ ~fs.entries[S3_BUCKET_FILE].exists
    /\ ExpectedMatches = {FILE_FOO, FILE_BAR}
    /\ Len(yielded) = 3 /\ yielded[3] = S3_BUCKET_FILE
    /\ err = "FileNotFoundError"

\* C7: the result mapping holds one record per resource name stored so far,
\* the record of the last document stored under that name, and every record
\* has the keys targets, then ref.
C7_LastWriteWins ==
    LET names == { seen[i].name : i \in DOMAIN seen }
    IN  /\ { resources[i][1] : i \in DOMAIN resources } = names
        /\ Len(resources) = Cardinality(names)
        /\ \A i \in DOMAIN resources :
              /\ resources[i][2] =
                    seen[Max({ j \in DOMAIN seen : seen[j].name = resources[i][1] })].record
              /\ DictKeys(resources[i][2]) = << "targets", "ref" >>

\* two documents of the same name and different records were stored
C7_Witness ==
    /\ Len(resources) = 1
    /\ \E i, j \in DOMAIN seen :
          /\ i < j /\ seen[i].name = seen[j].name /\ seen[i].record # seen[j].record
          /\ resources[1][2] = seen[j].record

\* the run ended at its first error, and nothing was written
FailedRunWritesNothing ==
    err # "none" => (out = << >> /\ mpc \in {"unwinding", "exited"})

\* JSON was written once, after every document of the source was parsed
WrittenAfterAllParsed ==
    out # << >> =>
        /\ err = "none" /\ Len(out) = 1
        /\ gen = "finished" /\ pending = << >>
        /\ Len(seen) = Len(yielded)
        /\ \A i \in DOMAIN seen : seen[i].path = yielded[i]

\* C5 as stated: a failed run writes nothing, and the JSON written after all
\* documents were parsed contains the record of every one of them.
C5_Original ==
    /\ FailedRunWritesNothing
    /\ WrittenAfterAllParsed
    /\ out # << >> =>
          \A i \in DOMAIN seen :
              /\ DictHas(out[1], seen[i].name)
              /\ DictGet(out[1], seen[i].name) = seen[i].record

\* C5, amended: a failed run writes nothing, and the JSON written after all
\* documents were parsed contains, under every resource name, the record of
\* the last document of that name.
C5_AllOrNothing ==
    /\ FailedRunWritesNothing
    /\ WrittenAfterAllParsed
    /\ out # << >> =>
          \A i \in DOMAIN seen :
              /\ DictHas(out[1], seen[i].name)
              /\ (\A j \in DOMAIN seen : j > i => seen[j].name # seen[i].name)
                    => DictGet(out[1], seen[i].name) = seen[i].record

\* a run that stored documents, then failed, has ended with an empty sink
C5_Witness ==
    /\ err # "none" /\ mpc = "exited"
    /\ Len(seen) >= 2 /\ resources # << >>
    /\ out = << >>

====
